---- MODULE Spec2Model ----
(***************************************************************************)
(* Model of NodeConfigurationProvider.resolveDebugConfiguration and its    *)
(* helpers (src/node/extension/configurationProvider.ts).                  *)
(*                                                                         *)
(* Strings that the code inspects character by character (process ids,     *)
(* runtime versions, paths) are sequences of one-character strings; an     *)
(* absent one (JavaScript undefined) is Undef.  Attributes the code only   *)
(* compares with literals are TLA+ strings; an absent one is None.         *)
(***************************************************************************)
EXTENDS Integers, Sequences, FiniteSets, TLC

\* ------------------------------------------------------------------ bounds

\* Process ids 1..MaxPid exist as attach targets.
MaxPid == 2

\* ------------------------------------------------------------- characters

\* an absent enumerated attribute
None == "undefined"

\* an absent string attribute (no string holds this element: the elements of a
\* string are single characters)
Undef == <<"undefined">>

Digits == <<"0", "1", "2", "3", "4", "5", "6", "7", "8", "9">>

LowerLetters ==
  <<"a", "b", "c", "d", "e", "f", "g", "h", "i", "j", "k", "l", "m",
    "n", "o", "p", "q", "r", "s", "t", "u", "v", "w", "x", "y", "z">>

UpperLetters ==
  <<"A", "B", "C", "D", "E", "F", "G", "H", "I", "J", "K", "L", "M",
    "N", "O", "P", "Q", "R", "S", "T", "U", "V", "W", "X", "Y", "Z">>

Range(s) == {s[i] : i \in DOMAIN s}

DigitChars == Range(Digits)

LetterChars == Range(LowerLetters) \cup Range(UpperLetters)

\* \d
IsDigit(c) == c \in DigitChars

\* \w
IsWordChar(c) == c \in DigitChars \cup LetterChars \cup {"_"}

\* white space as String.prototype.trim removes it
IsSpace(c) == c \in {" ", "\t", "\n"}

\* case folding of the regular expression's i flag
ToLower(c) ==
  IF c \in Range(UpperLetters)
  THEN LowerLetters[CHOOSE i \in DOMAIN UpperLetters : UpperLetters[i] = c]
  ELSE c

LowerStr(s) == [i \in DOMAIN s |-> ToLower(s[i])]

\* [0-9]*
AllDigits(s) == \A i \in DOMAIN s : IsDigit(s[i])

\* \w*
AllWordChars(s) == \A i \in DOMAIN s : IsWordChar(s[i])

\* the value of one decimal digit
DigitValue(c) == (CHOOSE i \in DOMAIN Digits : Digits[i] = c) - 1

\* Number(pid) for a string of decimal digits
RECURSIVE ToNumber(_)
ToNumber(s) ==
  IF s = <<>> THEN 0
  ELSE 10 * ToNumber(SubSeq(s, 1, Len(s) - 1)) + DigitValue(s[Len(s)])

\* String.prototype.trim
RECURSIVE TrimLeft(_)
TrimLeft(s) ==
  IF s # <<>> /\ IsSpace(s[1]) THEN TrimLeft(Tail(s)) ELSE s

RECURSIVE TrimRight(_)
TrimRight(s) ==
  IF s # <<>> /\ IsSpace(s[Len(s)])
  THEN TrimRight(SubSeq(s, 1, Len(s) - 1))
  ELSE s

Trim(s) == TrimRight(TrimLeft(s))

\* the pieces of s between occurrences of the character sep
RECURSIVE SplitAt(_, _)
SplitAt(s, sep) ==
  IF \A i \in DOMAIN s : s[i] # sep THEN <<s>>
  ELSE LET k == CHOOSE i \in DOMAIN s :
                  s[i] = sep /\ \A j \in 1..(i - 1) : s[j] # sep
       IN  <<SubSeq(s, 1, k - 1)>> \o SplitAt(SubSeq(s, k + 1, Len(s)), sep)

StartsWith(s, p) == Len(s) >= Len(p) /\ SubSeq(s, 1, Len(p)) = p

\* ---------------------------------------------------------- string literals

\* isPickProcessCommand: '${command:PickProcess}'
CmdPickProcess ==
  <<"$", "{", "c", "o", "m", "m", "a", "n", "d", ":", "P", "i", "c", "k",
    "P", "r", "o", "c", "e", "s", "s", "}">>

\* isPickProcessCommand: '${command:extension.pickNodeProcess}'
CmdPickNodeProcess ==
  <<"$", "{", "c", "o", "m", "m", "a", "n", "d", ":", "e", "x", "t", "e",
    "n", "s", "i", "o", "n", ".", "p", "i", "c", "k", "N", "o", "d", "e",
    "P", "r", "o", "c", "e", "s", "s", "}">>

\* '${file}'
FileVar ==
  <<"$", "{", "f", "i", "l", "e", "}">>

\* '${fileDirname}'
FileDirnameVar ==
  <<"$", "{", "f", "i", "l", "e", "D", "i", "r", "n", "a", "m", "e", "}">>

\* '${workspaceFolder}'
WorkspaceFolderVar ==
  <<"$", "{", "w", "o", "r", "k", "s", "p", "a", "c", "e", "F", "o", "l",
    "d", "e", "r", "}">>

\* configureMern: '${workspaceFolder}/index.js'
MernProgram ==
  <<"$", "{", "w", "o", "r", "k", "s", "p", "a", "c", "e", "F", "o", "l",
    "d", "e", "r", "}", "/", "i", "n", "d", "e", "x", ".", "j", "s">>

\* line 94: the runtimeVersion 'default'
DefaultVersion ==
  <<"d", "e", "f", "a", "u", "l", "t">>

\* parseVersionString: the default remote name 'node'
NodeRemote ==
  <<"n", "o", "d", "e">>

\* --------------------------------------------------- version string parser

\* [\w-]+
IsRemoteName(s) ==
  s # <<>> /\ \A i \in DOMAIN s : IsWordChar(s[i]) \/ s[i] = "-"

\* \d+
IsNumber(s) == s # <<>> /\ AllDigits(s)

\* \d+(\.\d+(\.\d+)?)?
IsSemVer(s) ==
  LET parts == SplitAt(s, ".")
  IN  Len(parts) \in 1..3 /\ \A i \in DOMAIN parts : IsNumber(parts[i])

\* match[4] of a piece that is v?(\d+(\.\d+(\.\d+)?)?)
StripV(s) == IF s # <<>> /\ ToLower(s[1]) = "v" THEN Tail(s) ELSE s

IsVersion(s) == IsSemVer(StripV(s))

\* (x86)|(32)|((x)?64)|(arm\w*)|(ppc\w*), case-insensitive
IsArchToken(s) ==
  LET l == LowerStr(s)
  IN  \/ l \in {<<"x", "8", "6">>, <<"3", "2">>, <<"6", "4">>, <<"x", "6", "4">>}
      \/ /\ \/ StartsWith(l, <<"a", "r", "m">>)
            \/ StartsWith(l, <<"p", "p", "c">>)
         /\ AllWordChars(SubSeq(s, 4, Len(s)))

\* process.config.variables.arm_version is read from the host
nvsStandardArchName(arch, armVersion) ==
  CASE arch \in {<<"3", "2">>, <<"x", "8", "6">>, <<"i", "a", "3", "2">>}
         -> <<"x", "8", "6">>
    [] arch \in {<<"6", "4">>, <<"x", "6", "4">>, <<"a", "m", "d", "6", "4">>}
         -> <<"x", "6", "4">>
    [] arch = <<"a", "r", "m">>
         -> IF armVersion # Undef
            THEN <<"a", "r", "m", "v">> \o armVersion \o <<"l">>
            ELSE <<"a", "r", "m">>
    [] OTHER -> arch

\* The regular expression's groups 2, 4 and 8 for the pieces p of the version
\* string between its slashes: remote/version/arch, remote/version (tried
\* first, the optional remote group being greedy), version/arch or version
\* alone.
MatchPieces(p) ==
  CASE Len(p) = 3 /\ IsRemoteName(p[1]) /\ IsVersion(p[2]) /\ IsArchToken(p[3])
         -> [matched |-> TRUE, remote |-> p[1], version |-> StripV(p[2]), arch |-> p[3]]
    [] Len(p) = 2 /\ IsRemoteName(p[1]) /\ IsVersion(p[2])
         -> [matched |-> TRUE, remote |-> p[1], version |-> StripV(p[2]), arch |-> Undef]
    [] Len(p) = 2 /\ ~(IsRemoteName(p[1]) /\ IsVersion(p[2]))
                  /\ IsVersion(p[1]) /\ IsArchToken(p[2])
         -> [matched |-> TRUE, remote |-> Undef, version |-> StripV(p[1]), arch |-> p[2]]
    [] Len(p) = 1 /\ IsVersion(p[1])
         -> [matched |-> TRUE, remote |-> Undef, version |-> StripV(p[1]), arch |-> Undef]
    [] OTHER
         -> [matched |-> FALSE, remote |-> Undef, version |-> Undef, arch |-> Undef]

\* line 463: versionRegex.exec(versionString)
VersionMatch(versionString) == MatchPieces(SplitAt(versionString, "/"))

\* an architecture given in the version string does not make it nvs-shaped
ParsedVersion_RemoteOnly(m, hostArch, armVersion) ==
  IF ~m.matched
  THEN [ok |-> FALSE, nvsFormat |-> FALSE, remoteName |-> Undef,
        semanticVersion |-> Undef, arch |-> Undef]
  ELSE [ok |-> TRUE,
        nvsFormat |-> (m.remote # Undef),
        remoteName |-> IF m.remote # Undef THEN m.remote ELSE NodeRemote,
        semanticVersion |-> m.version,
        arch |-> nvsStandardArchName(IF m.arch # Undef THEN m.arch ELSE hostArch,
                                     armVersion)]

\* lines 464-473 for the match m; ok = FALSE stands for the thrown 'Invalid
\* version string'
ParsedVersion(m, hostArch, armVersion) ==
  IF ~m.matched
  THEN [ok |-> FALSE, nvsFormat |-> FALSE, remoteName |-> Undef,
        semanticVersion |-> Undef, arch |-> Undef]
  ELSE [ok |-> TRUE,
        nvsFormat |-> (m.remote # Undef \/ m.arch # Undef),
        remoteName |-> IF m.remote # Undef THEN m.remote ELSE NodeRemote,
        semanticVersion |-> m.version,
        arch |-> nvsStandardArchName(IF m.arch # Undef THEN m.arch ELSE hostArch,
                                     armVersion)]

\* parseVersionString
parseVersionString(versionString, hostArch, armVersion) ==
  ParsedVersion(VersionMatch(versionString), hostArch, armVersion)

\* ------------------------------------------------------------------ paths

Sep(platform) == IF platform = "win32" THEN "\\" ELSE "/"

\* path.join of a normalized directory and one more segment
Join(platform, dir, segment) == dir \o <<Sep(platform)>> \o segment

IsSepChar(platform, c) == c = "/" \/ (platform = "win32" /\ c = "\\")

\* path.isAbsolute of a string: a leading separator, or on Windows a drive
\* letter followed by a colon and a separator
isAbsolute(platform, path) ==
  \/ Len(path) >= 1 /\ IsSepChar(platform, path[1])
  \/ /\ platform = "win32"
     /\ Len(path) >= 3
     /\ path[1] \in LetterChars
     /\ path[2] = ":"
     /\ IsSepChar(platform, path[3])

\* path.dirname of an absolute path that has no trailing separator
dirname(platform, path) ==
  LET seps == {i \in DOMAIN path : IsSepChar(platform, path[i])}
      last == CHOOSE i \in seps : \A j \in seps : j <= i
      first == CHOOSE i \in seps : \A j \in seps : i <= j
  IN  IF last = first THEN SubSeq(path, 1, first) ELSE SubSeq(path, 1, last - 1)

\* ------------------------------------------------------------ configuration

\* INSPECTOR_PORT_DEFAULT and LEGACY_PORT_DEFAULT of ./protocolDetection
INSPECTOR_PORT_DEFAULT == 9229

LEGACY_PORT_DEFAULT == 5858

\* config.port is <<>> when absent and <<n>> when it is the number n
NoPort == <<>>

EnvKeys == {"PATH", "Path", "NODE_ENV", "BABEL_DISABLE_CACHE"}

\* config.env: absent, or an object with some of EnvKeys
NoEnv == [defined |-> FALSE, vars |-> [k \in EnvKeys |-> Undef]]

EmptyEnv == [defined |-> TRUE, vars |-> [k \in EnvKeys |-> Undef]]

\* a configuration with no attribute
NoConfig ==
  [type |-> None, request |-> None, name |-> None, noDebug |-> FALSE,
   program |-> Undef, cwd |-> Undef, protocol |-> None, processId |-> Undef,
   port |-> NoPort, runtimeVersion |-> Undef, env |-> NoEnv, useWSL |-> FALSE,
   console |-> None, internalConsoleOptions |-> None,
   autoAttachChildProcesses |-> FALSE, trace |-> FALSE, logFilePath |-> None]

\* ------------------------------------------------- version manager locator

\* lines 102-109: NVS_HOME, else the probed 'nvs' directory, else nothing
NvsDir(host) ==
  IF host.platform = "win32"
  THEN Join(host.platform, host.LOCALAPPDATA, <<"n", "v", "s">>)
  ELSE Join(host.platform, host.HOME, <<".", "n", "v", "s">>)

NvsHome(host) ==
  IF host.NVS_HOME # Undef THEN host.NVS_HOME
  ELSE IF NvsDir(host) \in host.dirs THEN NvsDir(host)
  ELSE Undef

\* lines 140-147: NVM_DIR, else the probed '.nvm' directory, else nothing
NvmDir(host) == Join(host.platform, host.HOME, <<".", "n", "v", "m">>)

NvmHome(host) ==
  IF host.NVM_DIR # Undef THEN host.NVM_DIR
  ELSE IF NvmDir(host) \in host.dirs THEN NvmDir(host)
  ELSE Undef

\* lines 115-118: join(nvsHome, remoteName, semanticVersion, arch), plus 'bin'
\* on all platforms but Windows
NvsBin(platform, nvsHome, v) ==
  LET dir == Join(platform,
                  Join(platform, Join(platform, nvsHome, v.remoteName), v.semanticVersion),
                  v.arch)
  IN  IF platform # "win32" THEN Join(platform, dir, <<"b", "i", "n">>) ELSE dir

\* line 137: join(nvmHome, `v${config.runtimeVersion}`)
NvmWindowsBin(platform, nvmHome, runtimeVersion) ==
  Join(platform, nvmHome, <<"v">> \o runtimeVersion)

\* the directory is named after the semantic version, without a leading v
NvmBin_SemanticVersion(platform, nvmHome, runtimeVersion) ==
  Join(platform,
       Join(platform,
            Join(platform,
                 Join(platform, nvmHome, <<"v", "e", "r", "s", "i", "o", "n", "s">>),
                 NodeRemote),
            <<"v">> \o StripV(runtimeVersion)),
       <<"b", "i", "n">>)

\* line 153: join(nvmHome, 'versions', 'node', `v${config.runtimeVersion}`, 'bin')
NvmBin(platform, nvmHome, runtimeVersion) ==
  Join(platform,
       Join(platform,
            Join(platform,
                 Join(platform, nvmHome, <<"v", "e", "r", "s", "i", "o", "n", "s">>),
                 NodeRemote),
            <<"v">> \o runtimeVersion),
       <<"b", "i", "n">>)

Located(binDir, manager) ==
  [outcome |-> "bin", bin |-> binDir, versionManagerName |-> manager, message |-> None]

\* every failure of the locator is shown as a modal message
NotLocated_Shown(how, msg) ==
  [outcome |-> "modal", bin |-> Undef, versionManagerName |-> None, message |-> msg]

NotLocated(how, msg) ==
  [outcome |-> how, bin |-> Undef, versionManagerName |-> None, message |-> msg]

\* lines 113-156 for the nvs home and the parsed version: the candidate
\* directory and the version manager's name, a modal error message, or the
\* parser's exception
LocateWith(runtimeVersion, host, nvsHome, v) ==
  IF ~v.ok THEN NotLocated("throw", "Invalid version string")
  ELSE IF nvsHome # Undef
  THEN Located(NvsBin(host.platform, nvsHome, v), "nvs")
  ELSE IF v.nvsFormat THEN NotLocated("modal", "NVS_HOME.not.found")
  ELSE IF host.platform = "win32"
  THEN IF host.NVM_HOME = Undef
       THEN NotLocated("modal", "NVM_HOME.not.found")
       ELSE Located(NvmWindowsBin(host.platform, host.NVM_HOME, runtimeVersion),
                    "nvm-windows")
  ELSE IF NvmHome(host) = Undef
       THEN NotLocated("modal", "NVM_DIR.not.found")
       ELSE Located(NvmBin(host.platform, NvmHome(host), runtimeVersion), "nvm")

\* lines 98-156
LocateVersion(runtimeVersion, host) ==
  LocateWith(runtimeVersion, host, NvsHome(host),
             parseVersionString(runtimeVersion, host.arch, host.armVersion))

\* lines 159-166: `${bin};${process.env['Path']}` under the key Path on
\* Windows, `${bin}:${process.env['PATH']}` under the key PATH elsewhere
PrependPath(env, platform, binDir, host) ==
  LET key == IF platform = "win32" THEN "Path" ELSE "PATH"
      sep == IF platform = "win32" THEN ";" ELSE ":"
      old == IF platform = "win32" THEN host.Path ELSE host.PATH
  IN  [defined |-> TRUE,
       vars |-> [env.vars EXCEPT ![key] = binDir \o <<sep>> \o old]]

\* the candidate directory is not looked for in the file system
CheckInstalled_Unchecked(cfg, host, loc) ==
  [outcome |-> IF loc.outcome = "bin" THEN "ok" ELSE loc.outcome,
   cfg |-> IF loc.outcome = "bin"
           THEN [cfg EXCEPT !.env = PrependPath(cfg.env, host.platform, loc.bin, host)]
           ELSE cfg,
   bin |-> loc.bin, versionManagerName |-> loc.versionManagerName,
   message |-> loc.message]

\* a directory that does not exist is taken as the parser's exception is
CheckInstalled_Throws(cfg, host, loc) ==
  IF loc.outcome = "bin" /\ loc.bin \notin host.dirs
  THEN [outcome |-> "throw", cfg |-> cfg, bin |-> loc.bin,
        versionManagerName |-> loc.versionManagerName,
        message |-> "runtime.version.not.found"]
  ELSE [outcome |-> IF loc.outcome = "bin" THEN "ok" ELSE loc.outcome,
        cfg |-> cfg, bin |-> loc.bin,
        versionManagerName |-> loc.versionManagerName, message |-> loc.message]

\* lines 158-171 for what the locator found: the directory exists and is
\* prepended to the path, or the version is not installed
CheckInstalled(cfg, host, loc) ==
  IF loc.outcome # "bin"
  THEN [outcome |-> loc.outcome, cfg |-> cfg, bin |-> loc.bin,
        versionManagerName |-> loc.versionManagerName, message |-> loc.message]
  ELSE IF loc.bin \in host.dirs
  THEN [outcome |-> "ok",
        cfg |-> [cfg EXCEPT !.env = PrependPath(cfg.env, host.platform, loc.bin, host)],
        bin |-> loc.bin, versionManagerName |-> loc.versionManagerName,
        message |-> None]
  ELSE [outcome |-> "modal", cfg |-> cfg, bin |-> loc.bin,
        versionManagerName |-> loc.versionManagerName,
        message |-> "runtime.version.not.found"]

\* lines 94-172 on a configuration: its outcome, the configuration after it
\* and the locals bin and versionManagerName
VersionStage(cfg, host) ==
  IF cfg.runtimeVersion = Undef \/ cfg.runtimeVersion = DefaultVersion
  THEN [outcome |-> "ok", cfg |-> cfg, bin |-> Undef,
        versionManagerName |-> None, message |-> None]
  ELSE CheckInstalled(cfg, host, LocateVersion(cfg.runtimeVersion, host))

\* ------------------------------------------------ initial launch configuration

\* configureMern
configureMern(cfg) ==
  [cfg EXCEPT !.protocol = "inspector",
              !.program = MernProgram,
              !.env = [defined |-> TRUE,
                       vars |-> [k \in EnvKeys |->
                                   CASE k = "BABEL_DISABLE_CACHE" -> <<"1">>
                                     [] k = "NODE_ENV" ->
                                          <<"d", "e", "v", "e", "l", "o", "p", "m", "e", "n", "t">>
                                     [] OTHER -> Undef]],
              !.console = "integratedTerminal",
              !.internalConsoleOptions = "neverOpen"]

\* createLaunchConfigFromContext: context says what package.json and the
\* active editor yield: a 'mern-starter' package, a program, or nothing.  The
\* attributes runtimeExecutable, restart, outFiles and preLaunchTask, which
\* resolveDebugConfiguration never reads, are left out.
createLaunchConfigFromContext(resolve, existingConfig, context) ==
  LET base == [NoConfig EXCEPT !.type = "node", !.request = "launch",
                               !.name = "Launch Program",
                               !.noDebug = existingConfig.noDebug]
      program == IF ~resolve /\ context.program = Undef THEN FileVar
                 ELSE context.program
  IN  IF context.mern THEN configureMern(base)
      ELSE [base EXCEPT !.program = program]

\* line 42: launch.json is missing or empty
IsEmptyConfig(cfg) == cfg.type = None /\ cfg.request = None /\ cfg.name = None

\* ------------------------------------------------------------------- cwd

\* lines 55-80 run to the end without an exception: path.isAbsolute throws a
\* TypeError for a program that is no string
CwdThrows(cfg, folder, workspaceFolders) ==
  /\ cfg.cwd = Undef
  /\ folder = Undef
  /\ workspaceFolders = <<>>
  /\ cfg.program = Undef

\* lines 55-80: make sure that config has a 'cwd' attribute set
CwdStage(cfg, folder, workspaceFolders, platform) ==
  IF cfg.cwd # Undef THEN cfg
  ELSE IF folder # Undef THEN [cfg EXCEPT !.cwd = folder]
  ELSE IF workspaceFolders # <<>> THEN [cfg EXCEPT !.cwd = workspaceFolders[1]]
  ELSE IF cfg.program = FileVar THEN [cfg EXCEPT !.cwd = FileDirnameVar]
  ELSE IF isAbsolute(platform, cfg.program)
  THEN [cfg EXCEPT !.cwd = dirname(platform, cfg.program)]
  ELSE [cfg EXCEPT !.cwd = WorkspaceFolderVar]

\* lines 82-91: 'useWSL' is removed on all platforms but Windows, and the
\* integrated terminal keeps the debug console closed
ConsoleStage(cfg, platform) ==
  LET c1 == IF platform # "win32" /\ cfg.useWSL
            THEN [cfg EXCEPT !.useWSL = FALSE] ELSE cfg
  IN  IF c1.console = "integratedTerminal" /\ c1.internalConsoleOptions = None
      THEN [c1 EXCEPT !.internalConsoleOptions = "neverOpen"]
      ELSE c1

\* ---------------------------------------------------------------- debug type

\* isPickProcessCommand
isPickProcessCommand(configProcessId) ==
  Trim(configProcessId) \in {CmdPickProcess, CmdPickNodeProcess}

\* the pattern /^[0-9]*$/ and no test of the string itself
IsPidString_Empty(pid) == pid # Undef /\ AllDigits(pid)

\* line 378: pid && pid.match(/^[0-9]+$/)
IsPidString(pid) == pid # Undef /\ pid # <<>> /\ AllDigits(pid)

\* the protocol named in the configuration is looked at before the request
DebugTypeBranch_ProtocolFirst(cfg) ==
  IF cfg.protocol = "legacy" THEN "ByExplicitProtocol"
  ELSE IF cfg.protocol = "inspector" THEN "ByExplicitProtocol"
  ELSE IF cfg.request = "attach" /\ cfg.processId # Undef THEN "ByPid"
  ELSE "Auto"

\* lines 360-369: the branch determineDebugType takes
DebugTypeBranch(cfg) ==
  IF cfg.request = "attach" /\ cfg.processId # Undef THEN "ByPid"
  ELSE IF cfg.protocol = "legacy" THEN "ByExplicitProtocol"
  ELSE IF cfg.protocol = "inspector" THEN "ByExplicitProtocol"
  ELSE "Auto"

\* lines 362-365: the debug type of an explicit protocol
ExplicitProtocolType(cfg) ==
  IF cfg.protocol = "legacy" THEN "node" ELSE "node2"

\* the protocol named in the configuration is not looked at
ProtocolHint_PortsOnly(cfg) ==
  IF cfg.port = <<INSPECTOR_PORT_DEFAULT>> THEN "inspector"
  ELSE IF cfg.port = <<LEGACY_PORT_DEFAULT>> THEN "legacy"
  ELSE None

\* the protocol named in the configuration is looked at before the port
ProtocolHint_ProtocolFirst(cfg) ==
  IF cfg.protocol # None THEN cfg.protocol
  ELSE IF cfg.port = <<INSPECTOR_PORT_DEFAULT>> THEN "inspector"
  ELSE IF cfg.port = <<LEGACY_PORT_DEFAULT>> THEN "legacy"
  ELSE None

\* lines 421-429: the protocol known without a probe, None when
\* detectProtocolForPid has to be asked
ProtocolHint(cfg) ==
  IF cfg.port = <<INSPECTOR_PORT_DEFAULT>> THEN "inspector"
  ELSE IF cfg.port = <<LEGACY_PORT_DEFAULT>> THEN "legacy"
  ELSE IF cfg.protocol # None THEN cfg.protocol
  ELSE None

\* a protocol that is not the inspector protocol is taken as the legacy one
ProtocolToType_LegacyByDefault(debugProtocol) ==
  IF debugProtocol = "inspector" THEN "node2" ELSE "node"

\* lines 432-434: the debug type of a protocol, None for JavaScript null
ProtocolToType(debugProtocol) ==
  IF debugProtocol = "inspector" THEN "node2"
  ELSE IF debugProtocol = "legacy" THEN "node"
  ELSE None

\* the port is set and processId is kept
FinalizePidConfig_KeepsPid(cfg, debugType) ==
  IF debugType # None
  THEN [cfg EXCEPT !.port = IF debugType = "node2"
                            THEN <<INSPECTOR_PORT_DEFAULT>>
                            ELSE <<LEGACY_PORT_DEFAULT>>]
  ELSE cfg

\* lines 387-391: processId is handled, so turn this config into a normal
\* port attach config
FinalizePidConfig(cfg, debugType) ==
  IF debugType # None
  THEN [cfg EXCEPT !.processId = Undef,
                   !.port = IF debugType = "node2"
                            THEN <<INSPECTOR_PORT_DEFAULT>>
                            ELSE <<LEGACY_PORT_DEFAULT>>]
  ELSE cfg

\* the determined debug type is dropped
StoreDebugType_Dropped(cfg, debugType) == cfg

\* lines 182-184: the resolver stores a debug type that was determined
StoreDebugType(cfg, debugType) ==
  IF debugType # None THEN [cfg EXCEPT !.type = debugType] ELSE cfg

\* lines 191-197: the log file the trace is written to
LogFileName(cfg) ==
  IF cfg.type = "node" THEN "debugadapter-legacy.txt" ELSE "debugadapter.txt"

\* ------------------------------------------------------------ the host

\* Values of the environment variables and the directories of the host's
\* file system that the resolver reads.
PosixHome ==
  <<"/", "h">>

PosixNvsHome ==
  <<"/", "s">>

PosixNvmDir ==
  <<"/", "m">>

PosixPath ==
  <<"/", "b">>

WinLocalAppData ==
  <<"C", ":", "\\", "l">>

WinNvsHome ==
  <<"C", ":", "\\", "s">>

WinNvmHome ==
  <<"C", ":", "\\", "m">>

WinPath ==
  <<"C", ":", "\\", "b">>

ArchX64 ==
  <<"x", "6", "4">>

ArchIa32 ==
  <<"i", "a", "3", "2">>

ArchArm ==
  <<"a", "r", "m">>

\* Node.js 16 for x64 as nvs and nvm install it under each of their homes
PosixInstalled ==
  {
    <<"/", "s", "/", "n", "o", "d", "e", "/", "1", "6", "/", "x", "6", "4",
      "/", "b", "i", "n">>,
    <<"/", "h", "/", ".", "n", "v", "s", "/", "n", "o", "d", "e", "/", "1",
      "6", "/", "x", "6", "4", "/", "b", "i", "n">>,
    <<"/", "s", "/", "l", "t", "s", "/", "1", "6", "/", "x", "6", "4", "/",
      "b", "i", "n">>,
    <<"/", "h", "/", ".", "n", "v", "s", "/", "l", "t", "s", "/", "1", "6",
      "/", "x", "6", "4", "/", "b", "i", "n">>,
    <<"/", "m", "/", "v", "e", "r", "s", "i", "o", "n", "s", "/", "n", "o",
      "d", "e", "/", "v", "1", "6", "/", "b", "i", "n">>,
    <<"/", "h", "/", ".", "n", "v", "m", "/", "v", "e", "r", "s", "i", "o",
      "n", "s", "/", "n", "o", "d", "e", "/", "v", "1", "6", "/", "b", "i",
      "n">>
  }

WinInstalled ==
  {
    <<"C", ":", "\\", "s", "\\", "n", "o", "d", "e", "\\", "1", "6", "\\",
      "x", "6", "4">>,
    <<"C", ":", "\\", "l", "\\", "n", "v", "s", "\\", "n", "o", "d", "e",
      "\\", "1", "6", "\\", "x", "6", "4">>,
    <<"C", ":", "\\", "s", "\\", "l", "t", "s", "\\", "1", "6", "\\", "x",
      "6", "4">>,
    <<"C", ":", "\\", "l", "\\", "n", "v", "s", "\\", "l", "t", "s", "\\",
      "1", "6", "\\", "x", "6", "4">>,
    <<"C", ":", "\\", "m", "\\", "v", "1", "6">>
  }

\* ------------------------------------------------------------ the inputs

\* runtimeVersion attributes: nvm-shaped, nvs-shaped and malformed ones
RuntimeVersions ==
  {
    <<"1", "6">>,
    <<"v", "1", "6">>,
    <<"1", "6", ".", "2", ".", "0">>,
    <<"l", "t", "s", "/", "1", "6", "/", "x", "6", "4">>,
    <<"1", "6", "/", "6", "4">>,
    <<"1", "6", "/", "X", "6", "4">>,
    <<"l", "t", "s", "/", "1", "6">>,
    <<"1", "6", "/", "a", "r", "m">>,
    <<"n", "o", "t", "-", "a", "-", "v", "e", "r", "s", "i", "o", "n", "!">>
  }

FolderPath ==
  <<"/", "f">>

WorkspacePath ==
  <<"/", "w">>

UserCwd ==
  <<"/", "c">>

AbsoluteProgram ==
  <<"/", "a", "/", "p", ".", "j", "s">>

RelativeProgram ==
  <<"p", ".", "j", "s">>

WorkspaceProgram ==
  <<"$", "{", "w", "o", "r", "k", "s", "p", "a", "c", "e", "F", "o", "l",
    "d", "e", "r", "}", "/", "p", ".", "j", "s">>

NotAPid ==
  <<"a", "b", "c">>

PaddedPick ==
  <<" ", "$", "{", "c", "o", "m", "m", "a", "n", "d", ":", "e", "x", "t",
    "e", "n", "s", "i", "o", "n", ".", "p", "i", "c", "k", "N", "o", "d",
    "e", "P", "r", "o", "c", "e", "s", "s", "}", " ">>

\* process ids as the user writes them: the decimal numerals of 1..MaxPid and
\* one numeral with a leading zero
PidStrings ==
  {<<Digits[n + 1]>> : n \in 1..MaxPid} \cup {<<"0", Digits[MaxPid + 1]>>}

\* processId attributes: absent, a process id, text that is none, the empty
\* string, and the commands that ask for the process picker
ProcessIds ==
  {Undef, NotAPid, <<>>, CmdPickProcess, PaddedPick} \cup PidStrings

\* what the process picker answers: a process id, some other text, or null
\* when the user dismisses it (null is falsy like undefined: Undef)
PickAnswers == PidStrings \cup {Undef, NotAPid}

\* what detectProtocolForPid answers
ProbeAnswers == {"inspector", "legacy", None}

\* what detectDebugType answers
AutoAnswers == {"node", "node2", None}

Protocols == {None, "legacy", "inspector", "auto"}

Ports ==
  {NoPort, <<INSPECTOR_PORT_DEFAULT>>, <<LEGACY_PORT_DEFAULT>>,
   <<INSPECTOR_PORT_DEFAULT + 1>>}

\* type, request, name, protocol, processId and port of a launch.json entry
CoreInputs ==
  {[NoConfig EXCEPT !.type = t, !.request = r, !.name = n, !.protocol = pr,
                    !.processId = pid, !.port = po] :
     t \in {None, "node", "node2"}, r \in {None, "launch", "attach"},
     n \in {None, "cfg"}, pr \in Protocols, pid \in ProcessIds, po \in Ports}

BasicCoreInputs ==
  {NoConfig,
   [NoConfig EXCEPT !.type = "node", !.request = "launch", !.name = "cfg"],
   [NoConfig EXCEPT !.type = "node", !.request = "attach", !.name = "cfg",
                    !.protocol = "legacy", !.processId = <<"1">>],
   [NoConfig EXCEPT !.type = "node", !.request = "attach", !.name = "cfg",
                    !.processId = CmdPickProcess]}

\* folder, workspace folders, program and cwd
CwdInputs ==
  {[folder |-> f, workspaceFolders |-> w, program |-> p, cwd |-> c] :
     f \in {Undef, FolderPath}, w \in {<<>>, <<WorkspacePath>>},
     p \in {Undef, FileVar, AbsoluteProgram, RelativeProgram},
     c \in {Undef, UserCwd}}

BasicCwdInputs ==
  {[folder |-> FolderPath, workspaceFolders |-> <<WorkspacePath>>,
    program |-> Undef, cwd |-> Undef]}

\* the attributes of the console, of child processes and of the log
OtherInputs ==
  {[useWSL |-> u, console |-> co, internalConsoleOptions |-> i,
    autoAttachChildProcesses |-> a, trace |-> t, logFilePath |-> l,
    noDebug |-> nd] :
     u \in BOOLEAN, co \in {None, "integratedTerminal"},
     i \in {None, "openOnSessionStart"}, a \in BOOLEAN, t \in BOOLEAN,
     l \in {None, "user.log"}, nd \in BOOLEAN}

BasicOtherInputs ==
  {[useWSL |-> FALSE, console |-> None, internalConsoleOptions |-> None,
    autoAttachChildProcesses |-> FALSE, trace |-> FALSE, logFilePath |-> None,
    noDebug |-> FALSE]}

\* a host: its platform and architecture, which variables of the version
\* managers are set, which of their directories exist, and whether Node.js 16
\* is installed
MkHost(platform, arch, nvsSet, nvsProbe, nvmSet, nvmProbe, installed) ==
  LET win == platform = "win32"
      env == [platform |-> platform, arch |-> arch, armVersion |-> Undef,
              HOME |-> PosixHome, LOCALAPPDATA |-> WinLocalAppData,
              NVS_HOME |-> IF ~nvsSet THEN Undef
                           ELSE IF win THEN WinNvsHome ELSE PosixNvsHome,
              NVM_HOME |-> IF nvmSet /\ win THEN WinNvmHome ELSE Undef,
              NVM_DIR |-> IF nvmSet /\ ~win THEN PosixNvmDir ELSE Undef,
              PATH |-> PosixPath, Path |-> WinPath, dirs |-> {}]
  IN  [env EXCEPT !.dirs =
         (IF nvsProbe THEN {NvsDir(env)} ELSE {})
         \cup (IF nvmProbe /\ ~win THEN {NvmDir(env)} ELSE {})
         \cup (IF ~installed THEN {} ELSE IF win THEN WinInstalled ELSE PosixInstalled)]

\* a host whose Node.js was built for ARM version 7, with nvs
ArmHost ==
  [MkHost("linux", ArchArm, TRUE, FALSE, FALSE, FALSE, FALSE)
     EXCEPT !.armVersion = <<"7">>]

Hosts ==
  {MkHost(p, a, s1, s2, m1, m2, i) :
     p \in {"linux", "win32"}, a \in {ArchX64, ArchIa32},
     s1 \in BOOLEAN, s2 \in BOOLEAN, m1 \in BOOLEAN, m2 \in BOOLEAN,
     i \in BOOLEAN}
  \cup {ArmHost}

\* a value of PATH that a launch.json entry gives in its env
UserPath ==
  <<"/", "u">>

\* a value of NODE_ENV that a launch.json entry gives in its env
UserNodeEnv ==
  <<"t", "e", "s", "t">>

\* config.env of a launch.json entry: absent, without a path, with a path
Envs ==
  {NoEnv,
   [EmptyEnv EXCEPT !.vars["NODE_ENV"] = UserNodeEnv],
   [EmptyEnv EXCEPT !.vars["NODE_ENV"] = UserNodeEnv, !.vars["PATH"] = UserPath,
                    !.vars["Path"] = UserPath]}

\* a runtimeVersion, the env it is given with and the host it is resolved on
VersionInputs ==
  {[runtimeVersion |-> v, env |-> e, host |-> h] :
     v \in RuntimeVersions \cup {DefaultVersion}, e \in Envs, h \in Hosts}

BasicHost == MkHost("linux", ArchX64, FALSE, FALSE, TRUE, FALSE, TRUE)

BasicVersionInputs ==
  {[runtimeVersion |-> Undef, env |-> NoEnv, host |-> BasicHost],
   [runtimeVersion |-> <<"1", "6">>, env |-> NoEnv, host |-> BasicHost]}

\* what package.json and the active editor yield for an empty launch.json
Contexts ==
  {[mern |-> FALSE, program |-> Undef],
   [mern |-> FALSE, program |-> AbsoluteProgram],
   [mern |-> FALSE, program |-> WorkspaceProgram],
   [mern |-> TRUE, program |-> Undef]}

NoContext == [mern |-> FALSE, program |-> Undef]

\* the launch.json entry made of the four groups of attributes
MkConfig(core, cw, other, ver) ==
  [core EXCEPT !.program = cw.program, !.cwd = cw.cwd,
               !.runtimeVersion = ver.runtimeVersion,
               !.env = ver.env,
               !.useWSL = other.useWSL, !.console = other.console,
               !.internalConsoleOptions = other.internalConsoleOptions,
               !.autoAttachChildProcesses = other.autoAttachChildProcesses,
               !.trace = other.trace, !.logFilePath = other.logFilePath,
               !.noDebug = other.noDebug]

\* the locals nvsFormat, remoteName, semanticVersion and arch of a call that
\* has not bound them
NoVersion ==
  [ok |-> FALSE, nvsFormat |-> FALSE, remoteName |-> Undef,
   semanticVersion |-> Undef, arch |-> Undef]

\* ------------------------------------------------------------------ state

CallIds == {1, 2}

VARIABLES
  active,              \* the calls of resolveDebugConfiguration that were made
  pc,                  \* where each call is
  folder,              \* each call's argument folder
  input,               \* each call's argument config, as it was passed
  config,              \* each call's config, as the call has changed it
  branch,              \* the branch of determineDebugType each call took
  pid,                 \* the process id each call has got
  debugProtocol,       \* the protocol each call has detected
  debugType,           \* the debug type each call has determined
  error,               \* the exception or rejection each call ended with
  version,             \* each call's locals nvsFormat, remoteName,
                       \* semanticVersion and arch
  bin,                 \* each call's local bin
  versionManagerName,  \* each call's local versionManagerName
  activation,          \* how putPidInDebugMode ended in each call
  calls,               \* the capabilities each call has invoked, in order
  messages,            \* the modal error messages each call has shown
  host,                \* process.platform, process.env and the file system
  workspaceFolders,    \* vscode.workspace.workspaceFolders
  context,             \* package.json and the active editor
  debugMode            \* the processes that were put in debug mode

vars ==
  <<active, pc, folder, input, config, branch, pid, debugProtocol, debugType,
    error, version, bin, versionManagerName,
    activation, calls, messages, host, workspaceFolders, context, debugMode>>

hostVars == <<host, workspaceFolders, context>>

\* the inputs of one call: all attributes of a launch.json entry vary, one
\* group of attributes at a time
CallInputs ==
  {[core |-> c, cw |-> w, other |-> o, ver |-> v] :
     c \in CoreInputs, w \in BasicCwdInputs, o \in BasicOtherInputs,
     v \in BasicVersionInputs}
  \cup
  {[core |-> c, cw |-> w, other |-> o, ver |-> v] :
     c \in BasicCoreInputs, w \in CwdInputs, o \in BasicOtherInputs,
     v \in BasicVersionInputs}
  \cup
  {[core |-> c, cw |-> w, other |-> o, ver |-> v] :
     c \in BasicCoreInputs, w \in BasicCwdInputs, o \in OtherInputs,
     v \in BasicVersionInputs}
  \cup
  {[core |-> c, cw |-> w, other |-> o, ver |-> v] :
     c \in BasicCoreInputs, w \in BasicCwdInputs, o \in BasicOtherInputs,
     v \in VersionInputs}

\* line 41: a missing or empty launch.json gives a configuration with no
\* attribute but noDebug
InputConfig(i) ==
  IF IsEmptyConfig(i.core) THEN [NoConfig EXCEPT !.noDebug = i.other.noDebug]
  ELSE MkConfig(i.core, i.cw, i.other, i.ver)

\* package.json is read from the folder, and a program relative to the
\* workspace folder is found only in a folder
ContextsOf(i) ==
  IF ~IsEmptyConfig(i.core) THEN {NoContext}
  ELSE IF i.cw.folder = Undef
  THEN {c \in Contexts : ~c.mern /\ c.program # WorkspaceProgram}
  ELSE Contexts

Init ==
  \E i \in CallInputs : \E ctx \in ContextsOf(i) :
    /\ active = {1}
    /\ pc = [c \in CallIds |-> IF c = 1 THEN "start" ELSE "unused"]
    /\ folder = [c \in CallIds |-> IF c = 1 THEN i.cw.folder ELSE Undef]
    /\ input = [c \in CallIds |-> IF c = 1 THEN InputConfig(i) ELSE NoConfig]
    /\ config = input
    /\ branch = [c \in CallIds |-> None]
    /\ pid = [c \in CallIds |-> Undef]
    /\ debugProtocol = [c \in CallIds |-> None]
    /\ debugType = [c \in CallIds |-> None]
    /\ error = [c \in CallIds |-> None]
    /\ version = [c \in CallIds |-> NoVersion]
    /\ bin = [c \in CallIds |-> Undef]
    /\ versionManagerName = [c \in CallIds |-> None]
    /\ activation = [c \in CallIds |-> None]
    /\ calls = [c \in CallIds |-> <<>>]
    /\ messages = [c \in CallIds |-> <<>>]
    /\ host = i.ver.host
    /\ workspaceFolders = i.cw.workspaceFolders
    /\ context = ctx
    /\ debugMode = {}

\* the launch.json entries of two calls that are under way at the same time:
\* an empty one, a launch with a trace that is auto-detected, a launch with a
\* runtimeVersion, an attach that asks the picker and an attach to a process
\* id with a protocol
TwoCallInputs ==
  {[core |-> c, cw |-> w, other |-> o, ver |-> v] :
     c \in BasicCoreInputs, w \in BasicCwdInputs,
     o \in {x \in OtherInputs :
              /\ ~x.useWSL /\ x.console = None /\ x.internalConsoleOptions = None
              /\ ~x.autoAttachChildProcesses /\ x.logFilePath = None /\ ~x.noDebug},
     v \in {[runtimeVersion |-> r, env |-> NoEnv, host |-> BasicHost] :
              r \in {Undef, <<"1", "6">>, <<"v", "1", "6">>}}}

\* two calls of resolveDebugConfiguration on two configuration objects, on
\* one host
Init2 ==
  \E i1 \in TwoCallInputs, i2 \in TwoCallInputs :
  \E ctx \in {NoContext, [mern |-> FALSE, program |-> AbsoluteProgram]} :
    /\ active = {1, 2}
    /\ pc = [c \in CallIds |-> "start"]
    /\ folder = [c \in CallIds |-> IF c = 1 THEN i1.cw.folder ELSE i2.cw.folder]
    /\ input = [c \in CallIds |-> IF c = 1 THEN InputConfig(i1) ELSE InputConfig(i2)]
    /\ config = input
    /\ branch = [c \in CallIds |-> None]
    /\ pid = [c \in CallIds |-> Undef]
    /\ debugProtocol = [c \in CallIds |-> None]
    /\ debugType = [c \in CallIds |-> None]
    /\ error = [c \in CallIds |-> None]
    /\ version = [c \in CallIds |-> NoVersion]
    /\ bin = [c \in CallIds |-> Undef]
    /\ versionManagerName = [c \in CallIds |-> None]
    /\ activation = [c \in CallIds |-> None]
    /\ calls = [c \in CallIds |-> <<>>]
    /\ messages = [c \in CallIds |-> <<>>]
    /\ host = BasicHost
    /\ workspaceFolders = i1.cw.workspaceFolders
    /\ context = ctx
    /\ debugMode = {}

\* the launch.json entries of a call that is followed to its end: every
\* branch of the type determination, with and without a trace, a
\* runtimeVersion that is installed, not installed or malformed, with and
\* without a folder
FairInputs ==
  {[core |-> c, cw |-> w, other |-> o, ver |-> v] :
     c \in BasicCoreInputs
          \cup {[NoConfig EXCEPT !.type = "node", !.request = "attach",
                                 !.name = "cfg", !.protocol = pr, !.processId = p] :
                  pr \in Protocols, p \in {<<"1">>, NotAPid}},
     w \in {x \in CwdInputs : x.program = Undef /\ x.cwd = Undef
                              /\ x.workspaceFolders = <<>>},
     o \in {x \in OtherInputs :
              /\ ~x.useWSL /\ x.console = None /\ x.internalConsoleOptions = None
              /\ ~x.autoAttachChildProcesses /\ x.logFilePath = None /\ ~x.noDebug},
     v \in {[runtimeVersion |-> r, env |-> NoEnv, host |-> BasicHost] :
              r \in {Undef, <<"1", "6">>, <<"v", "1", "6">>,
                     <<"n", "o", "t", "-", "a", "-", "v", "e", "r", "s", "i", "o",
                       "n", "!">>}}}

\* one call on one of FairInputs
InitFair ==
  \E i \in FairInputs : \E ctx \in ContextsOf(i) :
    /\ active = {1}
    /\ pc = [c \in CallIds |-> IF c = 1 THEN "start" ELSE "unused"]
    /\ folder = [c \in CallIds |-> IF c = 1 THEN i.cw.folder ELSE Undef]
    /\ input = [c \in CallIds |-> IF c = 1 THEN InputConfig(i) ELSE NoConfig]
    /\ config = input
    /\ branch = [c \in CallIds |-> None]
    /\ pid = [c \in CallIds |-> Undef]
    /\ debugProtocol = [c \in CallIds |-> None]
    /\ debugType = [c \in CallIds |-> None]
    /\ error = [c \in CallIds |-> None]
    /\ version = [c \in CallIds |-> NoVersion]
    /\ bin = [c \in CallIds |-> Undef]
    /\ versionManagerName = [c \in CallIds |-> None]
    /\ activation = [c \in CallIds |-> None]
    /\ calls = [c \in CallIds |-> <<>>]
    /\ messages = [c \in CallIds |-> <<>>]
    /\ host = i.ver.host
    /\ workspaceFolders = i.cw.workspaceFolders
    /\ context = ctx
    /\ debugMode = {}

\* ---------------------------------------------------------------- actions

\* vscode.window.showErrorMessage(message, { modal: true }): the call goes on
\* when the user has acknowledged the message
ShowErrorMessage(c, message) ==
  /\ messages' = [messages EXCEPT ![c] = Append(@, message)]
  /\ pc' = [pc EXCEPT ![c] = "awaitAck"]

\* lines 359-376: determineDebugType up to its first promise
DetermineDebugType(c, cfg) ==
  LET invoked == IF cfg.autoAttachChildProcesses
                 THEN Append(calls[c], <<"prepareAutoAttachChildProcesses", 0>>)
                 ELSE calls[c]
      taken == DebugTypeBranch(cfg)
  IN  /\ UNCHANGED <<messages, error, debugProtocol>>
      /\ branch' = [branch EXCEPT ![c] = taken]
      /\ IF taken = "ByPid"
         THEN IF isPickProcessCommand(cfg.processId)
              THEN /\ calls' = [calls EXCEPT ![c] = Append(invoked, <<"pickProcess", 0>>)]
                   /\ pc' = [pc EXCEPT ![c] = "awaitPick"]
                   /\ UNCHANGED <<pid, debugType>>
              ELSE /\ calls' = [calls EXCEPT ![c] = invoked]
                   /\ pid' = [pid EXCEPT ![c] = cfg.processId]
                   /\ pc' = [pc EXCEPT ![c] = "pidThen"]
                   /\ UNCHANGED debugType
         ELSE IF taken = "ByExplicitProtocol"
         THEN /\ calls' = [calls EXCEPT ![c] = invoked]
              /\ debugType' = [debugType EXCEPT ![c] = ExplicitProtocolType(cfg)]
              /\ pc' = [pc EXCEPT ![c] = "typeThen"]
              /\ UNCHANGED pid
         ELSE /\ calls' = [calls EXCEPT ![c] = Append(invoked, <<"detectDebugType", 0>>)]
              /\ pc' = [pc EXCEPT ![c] = "awaitAuto"]
              /\ UNCHANGED <<pid, debugType>>

\* every call goes on with the configuration object of the first call
StartConfig_Shared(cfg, ctx) ==
  IF IsEmptyConfig(config[1]) THEN createLaunchConfigFromContext(TRUE, config[1], ctx)
  ELSE config[1]

\* lines 41-44: the configuration the call goes on with
StartConfig(cfg, ctx) ==
  IF IsEmptyConfig(cfg) THEN createLaunchConfigFromContext(TRUE, cfg, ctx)
  ELSE cfg

\* lines 39-180: resolveDebugConfiguration up to its first promise
Resolve(c) ==
  /\ c \in active
  /\ pc[c] = "start"
  /\ UNCHANGED <<active, folder, input, activation, hostVars, debugMode>>
  /\ \E c0 \in {StartConfig(config[c], context)} :
       IF IsEmptyConfig(config[c]) /\ c0.program = Undef
       THEN /\ ShowErrorMessage(c, "program.not.found")
            /\ config' = [config EXCEPT ![c] = c0]
            /\ UNCHANGED <<branch, pid, debugProtocol, debugType, error,
                           version, bin, versionManagerName, calls>>
       ELSE IF CwdThrows(c0, folder[c], workspaceFolders)
       THEN /\ pc' = [pc EXCEPT ![c] = "thrown"]
            /\ error' = [error EXCEPT ![c] = "TypeError"]
            /\ config' = [config EXCEPT ![c] = c0]
            /\ UNCHANGED <<branch, pid, debugProtocol, debugType, version,
                           bin, versionManagerName, calls, messages>>
       ELSE \E vs \in {VersionStage(
                         ConsoleStage(
                           CwdStage(c0, folder[c], workspaceFolders, host.platform),
                           host.platform),
                         host)} :
              /\ config' = [config EXCEPT ![c] = vs.cfg]
              /\ version' =
                   [version EXCEPT ![c] =
                      IF c0.runtimeVersion \in {Undef, DefaultVersion}
                      THEN NoVersion
                      ELSE parseVersionString(c0.runtimeVersion, host.arch,
                                              host.armVersion)]
              /\ bin' = [bin EXCEPT ![c] = vs.bin]
              /\ versionManagerName' =
                   [versionManagerName EXCEPT ![c] = vs.versionManagerName]
              /\ IF vs.outcome = "throw"
                 THEN /\ pc' = [pc EXCEPT ![c] = "thrown"]
                      /\ error' = [error EXCEPT ![c] = vs.message]
                      /\ UNCHANGED <<branch, pid, debugProtocol, debugType,
                                     calls, messages>>
                 ELSE IF vs.outcome = "modal"
                 THEN /\ ShowErrorMessage(c, vs.message)
                      /\ UNCHANGED <<branch, pid, debugProtocol, debugType,
                                     error, calls>>
                 ELSE DetermineDebugType(c, vs.cfg)

\* the user acknowledges the modal message: lines 48-50, 121-123, 133-135,
\* 149-151 and 168-170 return undefined and the launch is aborted
AckError(c) ==
  /\ c \in active
  /\ pc[c] = "awaitAck"
  /\ pc' = [pc EXCEPT ![c] = "aborted"]
  /\ UNCHANGED <<active, folder, input, version, branch, config, pid, debugProtocol, debugType,
                 error, bin, versionManagerName, activation, calls, messages,
                 hostVars, debugMode>>

\* pickProcess() answers
PickAnswer(c) ==
  /\ c \in active
  /\ pc[c] = "awaitPick"
  /\ \E answer \in PickAnswers : pid' = [pid EXCEPT ![c] = answer]
  /\ pc' = [pc EXCEPT ![c] = "pidThen"]
  /\ UNCHANGED <<active, folder, input, version, branch, config, debugProtocol, debugType,
                 error, bin, versionManagerName, activation, calls, messages,
                 hostVars, debugMode>>

\* the signal is lost: the process is not put in debug mode
Signal_Lost(processes, target, signalled) == processes

\* lines 404-413: process.kill(pid, 'SIGUSR1'), or node -e
\* process._debugProcess(pid) on Windows, puts the target in debug mode
\* unless it throws
Signal(processes, target, signalled) ==
  IF signalled THEN processes \cup {target} ELSE processes

\* the exception is thrown for the process that was signalled
putPidInDebugModeThrows_Inverted(signalled) == signalled

\* the exception of process.kill or execSync is swallowed
putPidInDebugModeThrows_Swallowed(signalled) == FALSE

\* lines 403-416: putPidInDebugMode throws when process.kill or execSync
\* has thrown
putPidInDebugModeThrows(signalled) == ~signalled

\* lines 377-385 with putPidInDebugMode (402-417) and the start of
\* determineDebugTypeForPidInDebugMode (419-429): process.kill or execSync
\* puts the process in debug mode or throws, as the host decides
PidThen(c) ==
  /\ c \in active
  /\ pc[c] = "pidThen"
  /\ UNCHANGED <<active, folder, input, version, branch, config, pid, debugType, bin,
                 versionManagerName, messages, hostVars>>
  /\ IF ~IsPidString(pid[c])
     THEN /\ pc' = [pc EXCEPT ![c] = "rejected"]
          /\ error' = [error EXCEPT ![c] = "VSND2006"]
          /\ UNCHANGED <<debugProtocol, activation, calls, debugMode>>
     ELSE \E signalled \in BOOLEAN :
          \E put \in {Append(calls[c], <<"putPidInDebugMode", ToNumber(pid[c])>>)} :
            /\ activation' = [activation EXCEPT ![c] =
                                IF signalled THEN "ok" ELSE "failed"]
            /\ debugMode' = Signal(debugMode, ToNumber(pid[c]), signalled)
            /\ IF putPidInDebugModeThrows(signalled)
               THEN /\ calls' = [calls EXCEPT ![c] = put]
                    /\ pc' = [pc EXCEPT ![c] = "rejected"]
                    /\ error' = [error EXCEPT ![c] = "VSND2021"]
                    /\ UNCHANGED debugProtocol
               ELSE /\ UNCHANGED error
                    /\ IF ProtocolHint(config[c]) # None
                       THEN /\ calls' = [calls EXCEPT ![c] = put]
                            /\ debugProtocol' =
                                 [debugProtocol EXCEPT ![c] = ProtocolHint(config[c])]
                            /\ pc' = [pc EXCEPT ![c] = "protocolThen"]
                       ELSE /\ calls' = [calls EXCEPT ![c] =
                                           Append(put, <<"detectProtocolForPid",
                                                         ToNumber(pid[c])>>)]
                            /\ pc' = [pc EXCEPT ![c] = "awaitProbe"]
                            /\ UNCHANGED debugProtocol

\* detectProtocolForPid(pid) answers, or fails
ProbeAnswer(c) ==
  /\ c \in active
  /\ pc[c] = "awaitProbe"
  /\ \/ /\ \E answer \in ProbeAnswers :
             debugProtocol' = [debugProtocol EXCEPT ![c] = answer]
        /\ pc' = [pc EXCEPT ![c] = "protocolThen"]
        /\ UNCHANGED error
     \/ /\ pc' = [pc EXCEPT ![c] = "rejected"]
        /\ error' = [error EXCEPT ![c] = "detectProtocolForPid"]
        /\ UNCHANGED debugProtocol
  /\ UNCHANGED <<active, folder, input, version, branch, config, pid, debugType, bin,
                 versionManagerName, activation, calls, messages, hostVars,
                 debugMode>>

\* lines 431-435
ProtocolThen(c) ==
  /\ c \in active
  /\ pc[c] = "protocolThen"
  /\ debugType' = [debugType EXCEPT ![c] = ProtocolToType(debugProtocol[c])]
  /\ pc' = [pc EXCEPT ![c] = "finalizeThen"]
  /\ UNCHANGED <<active, folder, input, version, branch, config, pid, debugProtocol, error, bin,
                 versionManagerName, activation, calls, messages, hostVars,
                 debugMode>>

\* lines 386-394
FinalizeThen(c) ==
  /\ c \in active
  /\ pc[c] = "finalizeThen"
  /\ config' = [config EXCEPT ![c] = FinalizePidConfig(@, debugType[c])]
  /\ pc' = [pc EXCEPT ![c] = "typeThen"]
  /\ UNCHANGED <<active, folder, input, version, branch, pid, debugProtocol, debugType, error,
                 bin, versionManagerName, activation, calls, messages,
                 hostVars, debugMode>>

\* detectDebugType(config, logger) answers
AutoAnswer(c) ==
  /\ c \in active
  /\ pc[c] = "awaitAuto"
  /\ \E answer \in AutoAnswers : debugType' = [debugType EXCEPT ![c] = answer]
  /\ pc' = [pc EXCEPT ![c] = "typeThen"]
  /\ UNCHANGED <<active, folder, input, version, branch, config, pid, debugProtocol, error, bin,
                 versionManagerName, activation, calls, messages, hostVars,
                 debugMode>>

\* lines 180-187 with fixupLogParameters up to its await (190-196)
TypeThen(c) ==
  /\ c \in active
  /\ pc[c] = "typeThen"
  /\ LET cfg == StoreDebugType(config[c], debugType[c])
     IN  /\ config' = [config EXCEPT ![c] = cfg]
         /\ pc' = [pc EXCEPT ![c] =
                     IF cfg.trace /\ cfg.logFilePath = None
                     THEN "awaitLogDir" ELSE "resolved"]
  /\ UNCHANGED <<active, folder, input, version, branch, pid, debugProtocol, debugType, error,
                 bin, versionManagerName, activation, calls, messages,
                 hostVars, debugMode>>

\* the log file is set and the call stays where it is
LogDirAnswer_Pending(c) ==
  /\ c \in active
  /\ pc[c] = "awaitLogDir"
  /\ config' = [config EXCEPT ![c].logFilePath = LogFileName(config[c])]
  /\ UNCHANGED <<active, pc, folder, input, version, branch, pid, debugProtocol,
                 debugType, error, bin, versionManagerName, activation, calls,
                 messages, hostVars, debugMode>>

\* logger.logDirectory answers: line 196
LogDirAnswer(c) ==
  /\ c \in active
  /\ pc[c] = "awaitLogDir"
  /\ config' = [config EXCEPT ![c].logFilePath = LogFileName(config[c])]
  /\ pc' = [pc EXCEPT ![c] = "resolved"]
  /\ UNCHANGED <<active, folder, input, version, branch, pid, debugProtocol, debugType, error,
                 bin, versionManagerName, activation, calls, messages,
                 hostVars, debugMode>>

Next ==
  \E c \in CallIds :
    \/ Resolve(c)
    \/ AckError(c)
    \/ PickAnswer(c)
    \/ PidThen(c)
    \/ ProbeAnswer(c)
    \/ ProtocolThen(c)
    \/ FinalizeThen(c)
    \/ AutoAnswer(c)
    \/ TypeThen(c)
    \/ LogDirAnswer(c)

Spec == Init /\ [][Next]_vars

\* one call whose capabilities all answer and whose callbacks are all run:
\* a promise that is settled has its handlers called by the event loop
FairSpec == InitFair /\ [][Next]_vars /\ WF_vars(Next)

\* two calls, interleaved at their promises
Spec2 == Init2 /\ [][Next]_vars

\* ------------------------------------------------------------------ claims

Ended(c) == pc[c] \in {"resolved", "aborted", "rejected", "thrown"}

\* the call has invoked the capability
Invoked(c, capability) == \E i \in DOMAIN calls[c] : calls[c][i][1] = capability

DebugTypes == {"node", "node2"}

\* the configuration as it was when determineDebugType was entered had this
\* type: the call's argument, or what was made for an empty launch.json
TypeBefore(c) == IF IsEmptyConfig(input[c]) THEN "node" ELSE input[c].type

\* the process id of a call that took the branch ByPid is known
PidObtained(c) ==
  /\ branch[c] = "ByPid"
  /\ pc[c] # "awaitPick"

\* C1 as stated, for the calls that got as far as determineDebugType: when
\* the call has ended, config.type is a debug type if and only if the call
\* did not abort.
C1_TypeSetIffNotAborted ==
  \A c \in active :
    (Ended(c) /\ branch[c] # None) =>
      (config[c].type \in DebugTypes <=> pc[c] = "resolved")

\* C1 as amended: when the call has ended, config.type is the debug type that
\* was determined if the call did not abort and a type was determined; in
\* every other case (abort, or no type determined) config.type is what it
\* was before the type determination.
C1_TypeStoredWhenDetermined ==
  \A c \in active :
    Ended(c) =>
      IF pc[c] = "resolved" /\ debugType[c] # None
      THEN debugType[c] \in DebugTypes /\ config[c].type = debugType[c]
      ELSE config[c].type = TypeBefore(c)

\* a call resolved to node2 for a configuration that came in as node
C1_Witness ==
  \E c \in active :
    /\ pc[c] = "resolved"
    /\ input[c].type = "node"
    /\ debugType[c] = "node2"
    /\ config[c].type = "node2"

\* C2 as stated: when the process picker was asked and answered no value, the
\* call ends silently: no modal message, no exception or rejection, the type
\* as it was, and neither putPidInDebugMode nor detectProtocolForPid invoked.
C2_SilentCancel ==
  \A c \in active :
    (Invoked(c, "pickProcess") /\ PidObtained(c) /\ pid[c] = Undef /\ Ended(c)) =>
      /\ pc[c] \notin {"rejected", "thrown"}
      /\ error[c] = None
      /\ messages[c] = <<>>
      /\ config[c].type = input[c].type
      /\ ~Invoked(c, "putPidInDebugMode")
      /\ ~Invoked(c, "detectProtocolForPid")

\* C3: a process id that is not a non-empty string of decimal digits, given
\* in the configuration or by the picker, makes the call fail with 'doesn't
\* look like a process id'; type, processId and port stay as they were and
\* neither putPidInDebugMode nor detectProtocolForPid is invoked.
C3_InvalidPidRejected ==
  \A c \in active :
    (PidObtained(c) /\ pid[c] # Undef
       /\ (pid[c] = <<>> \/ \E i \in DOMAIN pid[c] : pid[c][i] \notin DigitChars)) =>
      /\ pc[c] \in {"pidThen", "rejected"}
      /\ pc[c] = "rejected" => error[c] = "VSND2006"
      /\ config[c].type = input[c].type
      /\ config[c].processId = input[c].processId
      /\ config[c].port = input[c].port
      /\ ~Invoked(c, "putPidInDebugMode")
      /\ ~Invoked(c, "detectProtocolForPid")
      /\ activation[c] = None

\* the picker answered 'abc' and the call was rejected
C3_Witness ==
  \E c \in active :
    /\ Invoked(c, "pickProcess")
    /\ pid[c] = NotAPid
    /\ pc[c] = "rejected"
    /\ error[c] = "VSND2006"

\* the errors of the version manager stage
VersionMessages ==
  {"NVS_HOME.not.found", "NVM_HOME.not.found", "NVM_DIR.not.found",
   "runtime.version.not.found"}

\* C4 as stated: an invalid process id, a missing version manager home, a
\* version that is not installed and a failed debug-mode activation all end
\* the call with a modal message and the result undefined, never with an
\* exception or a rejected promise.
C4_AllErrorsAbortWithModal ==
  \A c \in active :
    (Ended(c) /\ (error[c] \in {"VSND2006", "VSND2021"} \/ messages[c] # <<>>)) =>
      /\ pc[c] = "aborted"
      /\ Len(messages[c]) = 1

\* C4 as amended: a missing version manager home and a version that is not
\* installed are shown as one modal message and the call resolves to
\* undefined; an invalid process id and a failed debug-mode activation are
\* not shown by the resolver: they leave it as a rejected promise that
\* carries the error.
C4_ModalOrRejected ==
  \A c \in active :
    /\ (pc[c] # "start" /\ bin[c] # Undef /\ bin[c] \notin host.dirs) =>
         /\ pc[c] \in {"awaitAck", "aborted"}
         /\ messages[c] = <<"runtime.version.not.found">>
    /\ (messages[c] # <<>> /\ Ended(c)) =>
         /\ pc[c] = "aborted"
         /\ Len(messages[c]) = 1
         /\ error[c] = None
    /\ (PidObtained(c) /\ ~IsPidString(pid[c]) /\ Ended(c)) =>
         /\ pc[c] = "rejected"
         /\ error[c] = "VSND2006"
         /\ messages[c] = <<>>
    /\ activation[c] = "failed" =>
         /\ pc[c] = "rejected"
         /\ error[c] = "VSND2021"
         /\ messages[c] = <<>>

\* one call was aborted for a version that is not installed
C4_Witness ==
  \E c \in active :
    /\ pc[c] = "aborted"
    /\ messages[c] = <<"runtime.version.not.found">>
    /\ bin[c] # Undef

\* the input is an attach request with a numeric processId and the protocol
\* 'legacy'
LegacyPidAttach(c) ==
  /\ input[c].request = "attach"
  /\ input[c].processId # Undef
  /\ input[c].processId # <<>>
  /\ \A i \in DOMAIN input[c].processId : input[c].processId[i] \in DigitChars
  /\ input[c].protocol = "legacy"

\* C5 as stated, for the calls that resolve: an attach request with a numeric
\* processId and the protocol 'legacy' ends, whatever its other attributes,
\* with the process put in debug mode, no probe, the type node, no processId
\* and the legacy port.
C5_LegacyPidAlwaysNode ==
  \A c \in active :
    (LegacyPidAttach(c) /\ pc[c] = "resolved") =>
      /\ Invoked(c, "putPidInDebugMode")
      /\ ~Invoked(c, "detectProtocolForPid")
      /\ config[c].type = "node"
      /\ config[c].processId = Undef
      /\ config[c].port = <<LEGACY_PORT_DEFAULT>>

\* C5 as amended: for an attach request with a numeric processId and the
\* protocol 'legacy' the probe is never invoked; once the type determination
\* has the process id, debug-mode activation is attempted on it; and when
\* the call resolves, the type is node with the legacy port, unless
\* config.port was the inspector port, which gives node2 with the inspector
\* port; processId is cleared in both cases.
C5_LegacyPidResolved ==
  \A c \in active :
    LegacyPidAttach(c) =>
      /\ ~Invoked(c, "detectProtocolForPid")
      /\ (branch[c] # None /\ pc[c] # "pidThen") =>
           /\ branch[c] = "ByPid"
           /\ calls[c][Len(calls[c])] =
                <<"putPidInDebugMode", ToNumber(input[c].processId)>>
      /\ pc[c] = "resolved" =>
           /\ activation[c] = "ok"
           /\ config[c].processId = Undef
           /\ IF input[c].port = <<INSPECTOR_PORT_DEFAULT>>
              THEN config[c].type = "node2"
                   /\ config[c].port = <<INSPECTOR_PORT_DEFAULT>>
              ELSE config[c].type = "node"
                   /\ config[c].port = <<LEGACY_PORT_DEFAULT>>

\* a legacy attach by process id resolved to node although another port was
\* configured
C5_Witness ==
  \E c \in active :
    /\ LegacyPidAttach(c)
    /\ input[c].port = <<INSPECTOR_PORT_DEFAULT + 1>>
    /\ pc[c] = "resolved"
    /\ config[c].type = "node"
    /\ config[c].port = <<LEGACY_PORT_DEFAULT>>

\* the protocol of the call is detected
ProtocolDetected(c) ==
  /\ branch[c] = "ByPid"
  /\ pc[c] \in {"protocolThen", "finalizeThen", "typeThen", "awaitLogDir", "resolved"}

\* C6: the protocol of a process is the inspector protocol when config.port
\* is the inspector port; else the legacy protocol when config.port is the
\* legacy port; else the protocol the configuration names; only when none of
\* the three applies is detectProtocolForPid invoked.
C6_DetectionOrder ==
  \A c \in active :
    (branch[c] = "ByPid" /\ activation[c] = "ok") =>
      /\ Invoked(c, "detectProtocolForPid") <=>
           /\ input[c].port # <<INSPECTOR_PORT_DEFAULT>>
           /\ input[c].port # <<LEGACY_PORT_DEFAULT>>
           /\ input[c].protocol = None
      /\ ProtocolDetected(c) =>
           /\ input[c].port = <<INSPECTOR_PORT_DEFAULT>> =>
                debugProtocol[c] = "inspector"
           /\ input[c].port = <<LEGACY_PORT_DEFAULT>> =>
                debugProtocol[c] = "legacy"
           /\ (/\ input[c].port # <<INSPECTOR_PORT_DEFAULT>>
               /\ input[c].port # <<LEGACY_PORT_DEFAULT>>
               /\ input[c].protocol # None) =>
                debugProtocol[c] = input[c].protocol

\* the inspector port won over the protocol 'legacy' and no probe was made
C6_Witness ==
  \E c \in active :
    /\ ProtocolDetected(c)
    /\ input[c].port = <<INSPECTOR_PORT_DEFAULT>>
    /\ input[c].protocol = "legacy"
    /\ debugProtocol[c] = "inspector"
    /\ ~Invoked(c, "detectProtocolForPid")

\* C7: when an attach by process id is resolved to a debug type, processId is
\* cleared and port is the default port of that type: (node2, inspector
\* port) or (node, legacy port); when no type was determined, processId and
\* port are as they were.
C7_PidBecomesPort ==
  \A c \in active :
    branch[c] = "ByPid" =>
      IF pc[c] \in {"typeThen", "awaitLogDir", "resolved"} /\ debugType[c] # None
      THEN /\ config[c].processId = Undef
           /\ \/ debugType[c] = "node2" /\ config[c].port = <<INSPECTOR_PORT_DEFAULT>>
              \/ debugType[c] = "node" /\ config[c].port = <<LEGACY_PORT_DEFAULT>>
           /\ pc[c] = "resolved" => config[c].type = debugType[c]
      ELSE /\ config[c].processId = input[c].processId
           /\ config[c].port = input[c].port

\* a probed process was found to speak the inspector protocol
C7_Witness ==
  \E c \in active :
    /\ branch[c] = "ByPid"
    /\ Invoked(c, "detectProtocolForPid")
    /\ pc[c] = "resolved"
    /\ input[c].processId # Undef
    /\ config[c].processId = Undef
    /\ config[c].type = "node2"
    /\ config[c].port = <<INSPECTOR_PORT_DEFAULT>>

\* the position of the first invocation of the capability (0: none)
FirstCall(c, capability) ==
  IF Invoked(c, capability)
  THEN CHOOSE i \in DOMAIN calls[c] :
         /\ calls[c][i][1] = capability
         /\ \A j \in 1..(i - 1) : calls[c][j][1] # capability
  ELSE 0

\* C8: in the branch ByPid the steps run in the order pick, debug-mode
\* activation, protocol detection, finalize: the protocol is not detected
\* and the probe is not invoked before the activation has succeeded, never
\* when it failed, and the configuration is not finalized before a protocol
\* was detected.
C8_PidStepsInOrder ==
  \A c \in active :
    branch[c] = "ByPid" =>
      /\ Invoked(c, "putPidInDebugMode") =>
           /\ pc[c] \notin {"awaitPick", "pidThen"}
           /\ isPickProcessCommand(input[c].processId) =>
                /\ Invoked(c, "pickProcess")
                /\ FirstCall(c, "pickProcess") < FirstCall(c, "putPidInDebugMode")
      /\ (Invoked(c, "detectProtocolForPid") \/ debugProtocol[c] # None
            \/ ProtocolDetected(c)) =>
           /\ activation[c] = "ok"
           /\ Invoked(c, "putPidInDebugMode")
      /\ Invoked(c, "detectProtocolForPid") =>
           FirstCall(c, "putPidInDebugMode") < FirstCall(c, "detectProtocolForPid")
      /\ activation[c] = "failed" =>
           /\ pc[c] = "rejected"
           /\ ~Invoked(c, "detectProtocolForPid")
           /\ debugProtocol[c] = None
      /\ (config[c].processId # input[c].processId \/ config[c].port # input[c].port) =>
           /\ pc[c] \in {"typeThen", "awaitLogDir", "resolved"}
           /\ debugProtocol[c] \in {"legacy", "inspector"}

\* a picked process was put in debug mode, probed and finalized
C8_Witness ==
  \E c \in active :
    /\ branch[c] = "ByPid"
    /\ pc[c] = "resolved"
    /\ Len(calls[c]) = 3
    /\ calls[c][1][1] = "pickProcess"
    /\ calls[c][2][1] = "putPidInDebugMode"
    /\ calls[c][3][1] = "detectProtocolForPid"
    /\ config[c].processId = Undef

\* a debug-mode activation failed
C8_WitnessFailed ==
  \E c \in active : activation[c] = "failed" /\ pc[c] = "rejected"

\* the capabilities of the type determination
Capabilities ==
  {"pickProcess", "putPidInDebugMode", "detectProtocolForPid", "detectDebugType"}

\* the process id looks like one: decimal digits, or a command for the picker
PidLike(processId) ==
  \/ processId # Undef /\ processId # <<>>
       /\ \A i \in DOMAIN processId : processId[i] \in DigitChars
  \/ TrimRight(TrimLeft(processId)) \in {CmdPickProcess, CmdPickNodeProcess}

\* C9 as stated: a call whose request is no attach with a PID-like processId
\* and whose protocol is legacy or inspector maps the protocol to node or
\* node2 and invokes none of the capabilities.
C9_PidLikeOnly ==
  \A c \in active :
    (/\ branch[c] # None
     /\ ~(input[c].request = "attach" /\ PidLike(input[c].processId))
     /\ input[c].protocol \in {"legacy", "inspector"}) =>
      /\ branch[c] = "ByExplicitProtocol"
      /\ \A k \in Capabilities : ~Invoked(c, k)
      /\ pc[c] # "rejected"

\* the attributes the branch is chosen by, as determineDebugType finds them
BranchInput(c) ==
  IF IsEmptyConfig(input[c])
  THEN [request |-> "launch", processId |-> Undef, protocol |-> config[c].protocol]
  ELSE [request |-> input[c].request, processId |-> input[c].processId,
        protocol |-> input[c].protocol]

\* C9 as amended: a call takes one branch: ByPid when the request is attach
\* and processId is a string, PID-like or not; otherwise ByExplicitProtocol
\* when the protocol is legacy or inspector, which maps to node or node2 and
\* invokes none of the capabilities; otherwise Auto, which invokes
\* detectDebugType and no other capability.
C9_OneBranch ==
  \A c \in active :
    branch[c] # None =>
      /\ branch[c] = "ByPid" <=>
           (BranchInput(c).request = "attach" /\ BranchInput(c).processId # Undef)
      /\ branch[c] = "ByExplicitProtocol" <=>
           /\ ~(BranchInput(c).request = "attach" /\ BranchInput(c).processId # Undef)
           /\ BranchInput(c).protocol \in {"legacy", "inspector"}
      /\ branch[c] \in {"ByPid", "ByExplicitProtocol", "Auto"}
      /\ branch[c] = "ByPid" => ~Invoked(c, "detectDebugType")
      /\ branch[c] = "ByExplicitProtocol" =>
           /\ \A k \in Capabilities : ~Invoked(c, k)
           /\ debugType[c] =
                (IF BranchInput(c).protocol = "legacy" THEN "node" ELSE "node2")
           /\ pc[c] \in {"typeThen", "awaitLogDir", "resolved"}
           /\ pc[c] = "resolved" => config[c].type = debugType[c]
      /\ branch[c] = "Auto" =>
           /\ \A k \in Capabilities \ {"detectDebugType"} : ~Invoked(c, k)
           /\ Invoked(c, "detectDebugType")

\* an attach by process id with the protocol inspector took the branch ByPid
C9_Witness ==
  \E c \in active :
    /\ branch[c] = "ByPid"
    /\ input[c].protocol = "inspector"
    /\ input[c].processId = <<"1">>
    /\ Invoked(c, "putPidInDebugMode")

\* an attach with the protocol legacy and a processId that is no string took
\* the branch ByExplicitProtocol
C9_WitnessExplicit ==
  \E c \in active :
    /\ branch[c] = "ByExplicitProtocol"
    /\ input[c].request = "attach"
    /\ input[c].processId = Undef
    /\ pc[c] = "resolved"
    /\ config[c].type = "node"

\* the strings of parts with the separator between them
RECURSIVE JoinAll(_, _)
JoinAll(sep, parts) ==
  IF Len(parts) = 1 THEN parts[1]
  ELSE parts[1] \o <<sep>> \o JoinAll(sep, Tail(parts))

\* the nvs home of the host: the variable NVS_HOME, else the directory nvs
\* under LOCALAPPDATA (Windows) or .nvs under HOME, if it exists
HostNvsHome ==
  IF host.NVS_HOME # Undef THEN host.NVS_HOME
  ELSE IF host.platform = "win32"
  THEN IF (host.LOCALAPPDATA \o <<"\\", "n", "v", "s">>) \in host.dirs
       THEN host.LOCALAPPDATA \o <<"\\", "n", "v", "s">> ELSE Undef
  ELSE IF (host.HOME \o <<"/", ".", "n", "v", "s">>) \in host.dirs
       THEN host.HOME \o <<"/", ".", "n", "v", "s">> ELSE Undef

\* the nvm home of a host that is not Windows: the variable NVM_DIR, else
\* the directory .nvm under HOME, if it exists
HostNvmHome ==
  IF host.NVM_DIR # Undef THEN host.NVM_DIR
  ELSE IF (host.HOME \o <<"/", ".", "n", "v", "m">>) \in host.dirs
       THEN host.HOME \o <<"/", ".", "n", "v", "m">> ELSE Undef

Candidate(dir, manager) == [bin |-> dir, manager |-> manager, message |-> None]

NoCandidate(message) == [bin |-> Undef, manager |-> None, message |-> message]

\* the four cases of the version manager locator for the runtimeVersion rv
\* that parses to v
ExpectedLocation(rv, v) ==
  IF HostNvsHome # Undef
  THEN Candidate(
         IF host.platform = "win32"
         THEN JoinAll("\\", <<HostNvsHome, v.remoteName, v.semanticVersion, v.arch>>)
         ELSE JoinAll("/", <<HostNvsHome, v.remoteName, v.semanticVersion, v.arch,
                             <<"b", "i", "n">> >>),
         "nvs")
  ELSE IF v.nvsFormat THEN NoCandidate("NVS_HOME.not.found")
  ELSE IF host.platform = "win32"
  THEN IF host.NVM_HOME = Undef THEN NoCandidate("NVM_HOME.not.found")
       ELSE Candidate(JoinAll("\\", <<host.NVM_HOME, <<"v">> \o rv>>), "nvm-windows")
  ELSE IF HostNvmHome = Undef THEN NoCandidate("NVM_DIR.not.found")
  ELSE Candidate(JoinAll("/", <<HostNvmHome, <<"v", "e", "r", "s", "i", "o", "n", "s">>,
                                <<"n", "o", "d", "e">>, <<"v">> \o rv,
                                <<"b", "i", "n">> >>),
                 "nvm")

\* the call has a runtimeVersion that matches the grammar and is past the
\* version manager locator
VersionLocated(c) ==
  /\ pc[c] # "start"
  /\ error[c] # "TypeError"
  /\ ~IsEmptyConfig(input[c])
  /\ input[c].runtimeVersion \notin {Undef, DefaultVersion}
  /\ VersionMatch(input[c].runtimeVersion).matched

LocatedAs(c, e) ==
  /\ bin[c] = e.bin
  /\ versionManagerName[c] = e.manager
  /\ IF e.message # None
     THEN messages[c] = <<e.message>> /\ pc[c] \in {"awaitAck", "aborted"}
     ELSE messages[c] \in {<<>>, <<"runtime.version.not.found">>}

\* C10: for a runtimeVersion other than 'default', (1) with an nvs home the
\* candidate is home/remoteName/semanticVersion/arch (plus /bin except on
\* Windows), whatever nvm has; (2) else an nvs-shaped version fails for want
\* of nvs; (3) else on Windows the candidate is NVM_HOME/v<runtimeVersion>,
\* or the call fails when NVM_HOME is not set; (4) else the candidate is
\* home/versions/node/v<runtimeVersion>/bin under the nvm home, or the call
\* fails when there is none.
C10_VersionManagerOrder ==
  \A c \in active :
    VersionLocated(c) =>
      LocatedAs(c, ExpectedLocation(
                     input[c].runtimeVersion,
                     parseVersionString(input[c].runtimeVersion, host.arch,
                                        host.armVersion)))

\* nvm's directory for the runtimeVersion 'v16' was the candidate
C10_WitnessNvm ==
  \E c \in active :
    /\ VersionLocated(c)
    /\ input[c].runtimeVersion = <<"v", "1", "6">>
    /\ versionManagerName[c] = "nvm"
    /\ bin[c] = PosixNvmDir \o <<"/", "v", "e", "r", "s", "i", "o", "n", "s", "/", "n",
                                "o", "d", "e", "/", "v", "v", "1", "6", "/", "b",
                                "i", "n">>

\* nvs was used although nvm has a home too
C10_WitnessNvs ==
  \E c \in active :
    /\ VersionLocated(c)
    /\ versionManagerName[c] = "nvs"
    /\ host.NVS_HOME = Undef
    /\ host.NVM_DIR # Undef
    /\ branch[c] # None

\* an nvs-shaped version failed for want of nvs, on a host that has nvm
C10_WitnessNoNvs ==
  \E c \in active :
    /\ VersionLocated(c)
    /\ messages[c] = <<"NVS_HOME.not.found">>
    /\ host.NVM_DIR # Undef
    /\ pc[c] = "aborted"

\* nvm-windows was used
C10_WitnessNvmWindows ==
  \E c \in active :
    /\ VersionLocated(c)
    /\ versionManagerName[c] = "nvm-windows"
    /\ branch[c] # None

\* the key of the path in config.env and the separator of its entries
PathKey == IF host.platform = "win32" THEN "Path" ELSE "PATH"

PathSep == IF host.platform = "win32" THEN ";" ELSE ":"

\* the path a program launched with the configuration env gets: the entry of
\* env when it has one, else the one of the process
EffectivePath(env) ==
  IF env.vars[PathKey] # Undef THEN env.vars[PathKey]
  ELSE IF host.platform = "win32" THEN host.Path ELSE host.PATH

\* the version manager locator of the call has yielded a candidate directory
CandidateYielded(c) ==
  /\ pc[c] # "start"
  /\ bin[c] # Undef

\* C11 as stated: when the locator has yielded a candidate directory that
\* exists, the path of the configuration's environment is the candidate
\* directory followed by the path it was (key Path and ';' on Windows, key
\* PATH and ':' elsewhere) and every other entry of config.env is as it was;
\* when the directory does not exist, the call aborts with the message that
\* the version is not installed and config.env is as it was.
C11_PathPrepended ==
  \A c \in active :
    CandidateYielded(c) =>
      IF bin[c] \in host.dirs
      THEN /\ config[c].env.defined
           /\ config[c].env.vars[PathKey] =
                bin[c] \o <<PathSep>> \o EffectivePath(input[c].env)
           /\ \A k \in EnvKeys \ {PathKey} :
                config[c].env.vars[k] = input[c].env.vars[k]
           /\ messages[c] = <<>>
      ELSE /\ pc[c] \in {"awaitAck", "aborted"}
           /\ messages[c] = <<"runtime.version.not.found">>
           /\ config[c].env = input[c].env

\* the call has got as far as line 111 with a runtimeVersion that does not
\* match the grammar
MalformedVersion(c) ==
  /\ pc[c] # "start"
  /\ error[c] # "TypeError"
  /\ ~IsEmptyConfig(input[c])
  /\ input[c].runtimeVersion \notin {Undef, DefaultVersion}
  /\ ~VersionMatch(input[c].runtimeVersion).matched

\* C12: a runtimeVersion that does not match the grammar ends the call with
\* the parser's exception, thrown to the caller: no modal message is shown,
\* config.env is as it was, and neither the picker, the activator, the probe
\* nor the auto-detection (nor any other capability) is invoked.
C12_MalformedVersionThrown ==
  \A c \in active :
    MalformedVersion(c) =>
      /\ pc[c] = "thrown"
      /\ error[c] = "Invalid version string"
      /\ messages[c] = <<>>
      /\ config[c].env = input[c].env
      /\ calls[c] = <<>>
      /\ branch[c] = None
      /\ debugMode = {}

\* an attach by process id with a malformed runtimeVersion and an env was
\* thrown out
C12_Witness ==
  \E c \in active :
    /\ MalformedVersion(c)
    /\ input[c].request = "attach"
    /\ input[c].processId # Undef
    /\ input[c].env.defined
    /\ pc[c] = "thrown"

\* the alias table of the architectures: 32, x86 and ia32 are x86; 64, x64
\* and amd64 are x64; arm is arm or armv<N>l; every other name is itself
AliasOf(a) ==
  IF a \in {<<"3", "2">>, <<"x", "8", "6">>, <<"i", "a", "3", "2">>}
  THEN <<"x", "8", "6">>
  ELSE IF a \in {<<"6", "4">>, <<"x", "6", "4">>, <<"a", "m", "d", "6", "4">>}
  THEN <<"x", "6", "4">>
  ELSE IF a = <<"a", "r", "m">> /\ host.armVersion # Undef
  THEN <<"a", "r", "m", "v">> \o host.armVersion \o <<"l">>
  ELSE a

\* a piece of a version string is (v)major[.minor[.patch]]
IsVersionPiece(s) ==
  LET digits == IF s # <<>> /\ s[1] \in {"v", "V"} THEN Tail(s) ELSE s
      nums == SplitAt(digits, ".")
  IN  /\ Len(nums) \in 1..3
      /\ \A i \in DOMAIN nums :
           nums[i] # <<>> /\ \A j \in DOMAIN nums[i] : nums[i][j] \in DigitChars

\* what the pieces p of a version string of the grammar give: of two pieces
\* the first is the remote when the second is a version
ExpectedVersion(p) ==
  LET hasRemote == Len(p) = 3 \/ (Len(p) = 2 /\ IsVersionPiece(p[2]))
      hasArch == Len(p) = 3 \/ (Len(p) = 2 /\ ~IsVersionPiece(p[2]))
      piece == IF hasRemote THEN p[2] ELSE p[1]
  IN  [ok |-> TRUE,
       nvsFormat |-> (hasRemote \/ hasArch),
       remoteName |-> IF hasRemote THEN p[1] ELSE <<"n", "o", "d", "e">>,
       semanticVersion |-> IF piece[1] \in {"v", "V"} THEN Tail(piece) ELSE piece,
       arch |-> AliasOf(IF hasArch THEN p[Len(p)] ELSE host.arch)]

\* the call has parsed a runtimeVersion of the grammar
VersionParsed(c) ==
  /\ pc[c] # "start"
  /\ error[c] # "TypeError"
  /\ ~IsEmptyConfig(input[c])
  /\ input[c].runtimeVersion \notin {Undef, DefaultVersion}
  /\ VersionMatch(input[c].runtimeVersion).matched

C13_WitnessHostArch ==
  \E c \in active :
    /\ VersionParsed(c)
    /\ input[c].runtimeVersion = <<"1", "6", "/", "X", "6", "4">>
    /\ host.arch = ArchX64
    /\ version[c].nvsFormat
    /\ version[c].arch = <<"X", "6", "4">>

\* how often the call has invoked the capability
Invocations(c, capability) ==
  Cardinality({i \in DOMAIN calls[c] : calls[c][i][1] = capability})

\* the call has failed: a modal error message, an exception, a rejection, or
\* a process that could not be put in debug mode
Failed(c) ==
  \/ pc[c] \in {"awaitAck", "aborted", "rejected", "thrown"}
  \/ activation[c] = "failed"

\* the capability the call has invoked last, None when it has invoked none
LastInvoked(c) ==
  IF calls[c] = <<>> THEN None ELSE calls[c][Len(calls[c])][1]

\* C14: within one call the picker, the activator, the probe and the
\* auto-detection are each invoked at most once; a failure comes right after
\* the capability that failed (or, for an invalid process id, right after
\* the process id was obtained), and after a failure the call invokes no
\* further capability and is not resumed.
C14_NoRetry ==
  /\ [](\A c \in active :
          /\ \A k \in Capabilities : Invocations(c, k) <= 1
          /\ activation[c] = "failed" =>
               LastInvoked(c) = "putPidInDebugMode" /\ pc[c] = "rejected"
          /\ error[c] = "detectProtocolForPid" =>
               LastInvoked(c) = "detectProtocolForPid" /\ pc[c] = "rejected"
          /\ error[c] = "VSND2006" =>
               /\ ~Invoked(c, "putPidInDebugMode")
               /\ ~Invoked(c, "detectProtocolForPid")
               /\ pc[c] = "rejected"
          /\ (messages[c] # <<>> \/ pc[c] = "thrown") => calls[c] = <<>>)
  /\ [][\A c \in active :
          Failed(c) =>
            /\ calls'[c] = calls[c]
            /\ debugMode' = debugMode
            /\ pc'[c] \in {pc[c], "aborted"}
            /\ Failed(c)']_vars

\* the probe failed after the picker and the activator were invoked once
C14_Witness ==
  \E c \in active :
    /\ error[c] = "detectProtocolForPid"
    /\ Invocations(c, "pickProcess") = 1
    /\ Invocations(c, "putPidInDebugMode") = 1
    /\ Invocations(c, "detectProtocolForPid") = 1
    /\ pc[c] = "rejected"

End(outcome, cfg) == [outcome |-> outcome, cfg |-> cfg]

\* lines 190-199 on the configuration with its type stored
AloneLogged(cfg) ==
  End("resolved",
      IF cfg.trace /\ cfg.logFilePath = None
      THEN [cfg EXCEPT !.logFilePath = LogFileName(cfg)] ELSE cfg)

\* lines 386-394 and 182-184 for the type that was determined by process id
AlonePidTyped(cfg, dt) == AloneLogged(StoreDebugType(FinalizePidConfig(cfg, dt), dt))

\* lines 377-385 and 419-435 for the process id p, with the answers that the
\* activator and the probe gave to call c
AlonePid(c, cfg, p) ==
  IF ~IsPidString(p) \/ activation[c] = "failed" THEN End("rejected", cfg)
  ELSE IF ProtocolHint(cfg) # None
  THEN AlonePidTyped(cfg, ProtocolToType(ProtocolHint(cfg)))
  ELSE IF error[c] = "detectProtocolForPid" THEN End("rejected", cfg)
  ELSE AlonePidTyped(cfg, ProtocolToType(debugProtocol[c]))

\* lines 359-370 for the branch br, with the answers that the picker and the
\* auto-detection gave to call c
AloneBranch(c, cfg, br) ==
  IF br = "ByPid"
  THEN AlonePid(c, cfg, IF isPickProcessCommand(cfg.processId) THEN pid[c]
                        ELSE cfg.processId)
  ELSE IF br = "ByExplicitProtocol"
  THEN AloneLogged(StoreDebugType(cfg, ExplicitProtocolType(cfg)))
  ELSE AloneLogged(StoreDebugType(cfg, debugType[c]))

\* lines 94-180 for the outcome vs of the version manager stage
AloneStaged(c, vs) ==
  IF vs.outcome = "throw" THEN End("thrown", vs.cfg)
  ELSE IF vs.outcome = "modal" THEN End("aborted", vs.cfg)
  ELSE AloneBranch(c, vs.cfg, DebugTypeBranch(vs.cfg))

\* lines 42-92 for the configuration c0 the call goes on with
AloneFrom(c, c0) ==
  IF IsEmptyConfig(input[c]) /\ c0.program = Undef THEN End("aborted", c0)
  ELSE IF CwdThrows(c0, folder[c], workspaceFolders) THEN End("thrown", c0)
  ELSE AloneStaged(c, VersionStage(
                        ConsoleStage(
                          CwdStage(c0, folder[c], workspaceFolders, host.platform),
                          host.platform),
                        host))

\* how call c ends when it runs alone, from first to last, on the
\* configuration it was given and with the answers its capabilities gave
Alone(c) == AloneFrom(c, StartConfig(input[c], context))

\* the variables of call d are left alone
CallUnchanged(d) ==
  /\ pc'[d] = pc[d] /\ config'[d] = config[d] /\ input'[d] = input[d]
  /\ branch'[d] = branch[d] /\ pid'[d] = pid[d]
  /\ debugProtocol'[d] = debugProtocol[d] /\ debugType'[d] = debugType[d]
  /\ error'[d] = error[d] /\ version'[d] = version[d] /\ bin'[d] = bin[d]
  /\ versionManagerName'[d] = versionManagerName[d]
  /\ activation'[d] = activation[d] /\ calls'[d] = calls[d]
  /\ messages'[d] = messages[d]

\* C15: of two calls on two configurations that are interleaved at their
\* promises, every step is a step of one call and changes the configuration
\* and the locals of that call only, and each call ends with the
\* configuration and the outcome it ends with when it runs alone with the
\* same answers of its capabilities.
C15_CallsIndependent ==
  /\ [](\A c \in active :
          Ended(c) => pc[c] = Alone(c).outcome /\ config[c] = Alone(c).cfg)
  /\ [][\E c \in CallIds : \A d \in CallIds \ {c} : CallUnchanged(d)]_vars

\* the two calls were both under way, and both have ended, one resolved by
\* process id and one auto-detected
C15_Witness ==
  /\ active = {1, 2}
  /\ pc[1] = "resolved" /\ branch[1] = "ByPid" /\ config[1].type = "node2"
  /\ Invoked(1, "pickProcess")
  /\ pc[2] = "resolved" /\ branch[2] = "Auto" /\ config[2].type = "node"
  /\ config[2].logFilePath # None

\* one call waits for the picker while the other waits for the probe
C15_WitnessInterleaved ==
  /\ active = {1, 2}
  /\ pc[1] = "awaitPick"
  /\ pc[2] = "awaitProbe"

\* the protocol of the process was detected and is neither the inspector nor
\* the legacy protocol
UnknownProtocol(c) ==
  /\ ProtocolDetected(c)
  /\ debugProtocol[c] \notin {"inspector", "legacy"}

\* C16: when the protocol detected for a process id is neither inspector nor
\* legacy (the probe answers null, or the configuration names another
\* protocol such as 'auto'), no type is determined, the call goes on and
\* ends resolved, and config.type, config.processId and config.port stay as
\* they were when the call was made.
C16_UnknownProtocolResolves ==
  \A c \in active :
    UnknownProtocol(c) =>
      /\ pc[c] # "protocolThen" => debugType[c] = None
      /\ Ended(c) => pc[c] = "resolved"
      /\ error[c] = None /\ messages[c] = <<>>
      /\ config[c].type = input[c].type
      /\ config[c].processId = input[c].processId
      /\ config[c].port = input[c].port

\* a call resolved with its processId kept, for the protocol 'auto'
C16_Witness ==
  \E c \in active :
    /\ UnknownProtocol(c)
    /\ debugProtocol[c] = "auto"
    /\ pc[c] = "resolved"
    /\ config[c].processId \in PidStrings
    /\ config[c].port = <<INSPECTOR_PORT_DEFAULT + 1>>

\* a call resolved with the picker's command kept, for a probe that answered
\* null
C16_WitnessProbe ==
  \E c \in active :
    /\ UnknownProtocol(c)
    /\ Invoked(c, "detectProtocolForPid")
    /\ debugProtocol[c] = None
    /\ pc[c] = "resolved"
    /\ config[c].processId = CmdPickProcess

\* the call has put its process in debug mode
Activated(c) == activation[c] = "ok"

\* C17: a process that a call has put in debug mode is in debug mode in every
\* later state, whether the protocol detection fails, answers null, or the
\* call ends in any way: no step takes a process out of debug mode, and the
\* call does nothing with the process but activate it and probe it.
C17_NoRollback ==
  /\ [](\A c \in active :
          Activated(c) =>
            /\ ToNumber(pid[c]) \in debugMode
            /\ \A i \in DOMAIN calls[c] :
                 calls[c][i][2] = ToNumber(pid[c]) =>
                   calls[c][i][1] \in {"putPidInDebugMode", "detectProtocolForPid"}
            /\ Invocations(c, "putPidInDebugMode") = 1)
  /\ [][debugMode \subseteq debugMode']_vars

\* the probe failed after the process was put in debug mode, and the process
\* is in debug mode still
C17_Witness ==
  \E c \in active :
    /\ Activated(c)
    /\ pc[c] = "rejected"
    /\ error[c] = "detectProtocolForPid"
    /\ ToNumber(pid[c]) \in debugMode

\* the call was aborted: a modal error message was shown, the promise was
\* rejected, or the version parser's exception was thrown
Aborted(c) ==
  \/ pc[c] \in {"aborted", "rejected"}
  \/ pc[c] = "thrown" /\ error[c] = "Invalid version string"

\* C18 as stated: every call that has ended and was not aborted has returned
\* a configuration whose cwd is set, whatever the folder, the workspace
\* folders, the program and the request are; and a cwd that the
\* configuration came with is the cwd still.
C18_CwdAlwaysSet ==
  \A c \in active :
    (Ended(c) /\ ~Aborted(c)) =>
      /\ pc[c] = "resolved"
      /\ config[c].cwd \notin {Undef, <<>>}
      /\ input[c].cwd # Undef => config[c].cwd = input[c].cwd

\* the call fails one of the checks that come before the type
\* determination: no program for an empty launch.json, no home of the
\* version manager, or a version that is not installed
FailsValidation(c) ==
  /\ pc[c] # "start"
  /\ \/ IsEmptyConfig(input[c]) /\ config[c].program = Undef
     \/ bin[c] # Undef /\ bin[c] \notin host.dirs
     \/ /\ version[c].ok /\ bin[c] = Undef

\* C19: a call that fails a check of an earlier stage (no program for an
\* empty launch.json, no home of the version manager, a version that is not
\* installed) is aborted with its modal message before the type
\* determination: it invokes neither the picker, the activator, the probe
\* nor the auto-detection, and puts no process in debug mode.
C19_ValidationFirst ==
  \A c \in active :
    (FailsValidation(c) \/ messages[c] # <<>>) =>
      /\ pc[c] \in {"awaitAck", "aborted"}
      /\ Len(messages[c]) = 1
      /\ calls[c] = <<>>
      /\ branch[c] = None
      /\ activation[c] = None
      /\ debugMode = {}

\* an attach to a process id was aborted for a version that is not
\* installed, and the process was left alone
C19_Witness ==
  \E c \in active :
    /\ FailsValidation(c)
    /\ input[c].request = "attach"
    /\ input[c].processId \in PidStrings
    /\ messages[c] = <<"runtime.version.not.found">>
    /\ pc[c] = "aborted"
    /\ debugMode = {}

\* the places of a call, in the order in which a call can come to them
PcOrder ==
  <<"start", "awaitAck", "awaitPick", "pidThen", "awaitProbe", "protocolThen",
    "finalizeThen", "awaitAuto", "typeThen", "awaitLogDir", "ended">>

Position(p) ==
  CHOOSE i \in DOMAIN PcOrder :
    PcOrder[i] = (IF p \in {"resolved", "aborted", "rejected", "thrown"}
                  THEN "ended" ELSE p)

\* C20: when the picker, the probe, the auto-detection, the log directory
\* and the user's acknowledgement all answer, every call ends: it resolves
\* or it is aborted (with a modal message, a rejected promise or an
\* exception); every step takes one call to a later place, so that no place
\* is come to twice, and a call that has ended stays ended.
C20_Terminates ==
  /\ <>(\A c \in active : Ended(c))
  /\ [][\E c \in active :
          /\ Position(pc'[c]) > Position(pc[c])
          /\ \A d \in CallIds \ {c} : pc'[d] = pc[d]]_vars
  /\ [][\A c \in active : Ended(c) => pc'[c] = pc[c]]_vars

\* a call that waited for the picker and for the probe has resolved
C20_Witness ==
  \E c \in active :
    /\ pc[c] = "resolved"
    /\ Invoked(c, "pickProcess")
    /\ Invoked(c, "detectProtocolForPid")
    /\ debugType[c] = "node2"
    /\ config[c].port = <<INSPECTOR_PORT_DEFAULT>>
    /\ config[c].type = "node2"
    /\ pid[c] = <<"0", Digits[MaxPid + 1]>>

====
